---------------------------- MODULE Spec2Model ----------------------------
(***************************************************************************)
(* SyncPulse Keepers: the page component (src/src/routes/+page.svelte)     *)
(* and the connection store (src/unnamed/part_001, imported by the page    *)
(* as $lib/connectionStore.js), modelled for one browser tab.  The other   *)
(* peers, the PeerJS library, the timers and the user are the environment. *)
(*                                                                         *)
(* Conventions                                                             *)
(*  - `get` in the store is read as svelte/store's get (the store's        *)
(*    import line names only `writable`).                                  *)
(*  - Every named function is an operation; the template's `disabled` and  *)
(*    {#if} conditions around the buttons are not guards of them.  The     *)
(*    inline "Back to Lobby" handlers exist only as buttons and keep the   *)
(*    template condition under which they are rendered.                    *)
(*  - pulseHealth is an IEEE-754 double.  Every value it takes is a        *)
(*    multiple of 2^-56 below 2^7, kept as three 21-bit limbs.             *)
(*  - A timer handle is 0 (null) or the time, in ms since startGameTimers, *)
(*    at which the timer fires next; the armed timer with the least time   *)
(*    fires first and timers due at the same instant fire in any order.    *)
(***************************************************************************)
EXTENDS Integers, Sequences, FiniteSets, TLC

(***************************************************************************)
(* IEEE-754 double arithmetic on the values pulseHealth can take.          *)
(***************************************************************************)
LIMB == 2097152

RECURSIVE Pow2(_)
Pow2(n) == IF n = 0 THEN 1 ELSE 2 * Pow2(n - 1)

RECURSIVE BitLen(_)
BitLen(n) == IF n = 0 THEN 0 ELSE 1 + BitLen(n \div 2)

F64(neg, hi, mid, lo) == [neg |-> neg, hi |-> hi, mid |-> mid, lo |-> lo]

F64Zero == F64(FALSE, 0, 0, 0)

\* the double nearest to n, for an integer 0 <= n < 128
F64Int(n) == F64(FALSE, n * 16384, 0, 0)

MagIsZero(x) == x.hi = 0 /\ x.mid = 0 /\ x.lo = 0

MagLess(x, y) ==
    \/ x.hi < y.hi
    \/ x.hi = y.hi /\ x.mid < y.mid
    \/ x.hi = y.hi /\ x.mid = y.mid /\ x.lo < y.lo

\* x < y and x <= y on doubles
F64Less(x, y) ==
    IF x.neg /\ ~y.neg THEN ~(MagIsZero(x) /\ MagIsZero(y))
    ELSE IF ~x.neg /\ y.neg THEN FALSE
    ELSE IF x.neg THEN MagLess(y, x)
    ELSE MagLess(x, y)

F64Leq(x, y) == ~F64Less(y, x)

\* carries of a limb triple whose limbs may have left 0..LIMB-1 by one LIMB
Normalize(neg, hi, mid, lo) ==
    LET lo1  == lo % LIMB
        c1   == (lo - lo1) \div LIMB
        mid0 == mid + c1
        mid1 == mid0 % LIMB
        c2   == (mid0 - mid1) \div LIMB
    IN  F64(neg, hi + c2, mid1, lo1)

\* round to nearest, ties to even, to 53 significant bits
F64Round(x) ==
    LET j == BitLen(x.hi) - 11
    IN  IF j <= 0 THEN x
        ELSE LET ulp  == Pow2(j)
                 q    == x.lo \div ulp
                 r    == x.lo % ulp
                 half == ulp \div 2
                 up   == IF r > half \/ (r = half /\ q % 2 = 1) THEN 1 ELSE 0
             IN  Normalize(x.neg, x.hi, x.mid, (q + up) * ulp)

MagAdd(neg, x, y) == F64Round(Normalize(neg, x.hi + y.hi, x.mid + y.mid, x.lo + y.lo))

\* |x| - |y| for |x| >= |y|
MagSub(neg, x, y) == F64Round(Normalize(neg, x.hi - y.hi, x.mid - y.mid, x.lo - y.lo))

F64Add(x, y) ==
    IF x.neg = y.neg THEN MagAdd(x.neg, x, y)
    ELSE IF MagLess(x, y) THEN MagSub(y.neg, y, x)
    ELSE IF MagLess(y, x) THEN MagSub(x.neg, x, y)
    ELSE F64Zero

F64Neg(x) == F64(~x.neg, x.hi, x.mid, x.lo)

F64Sub(x, y) == F64Add(x, F64Neg(y))

\* Math.max and Math.min
MathMax(x, y) == IF F64Less(x, y) THEN y ELSE x

MathMin(x, y) == IF F64Less(y, x) THEN y ELSE x

(***************************************************************************)
(* Game configuration (+page.svelte lines 28-34).                          *)
(***************************************************************************)
MAX_HEALTH == 100
HEALTH_DRAIN_RATE == 1
NODE_SPAWN_INTERVAL_START == 3000
NODE_SPAWN_INTERVAL_MIN == 800
NODE_TIMER_DURATION == 5000
HEALTH_GAIN_PER_CLICK == 5
HEALTH_LOSS_PER_MISS == 15

\* period of gameLoopInterval and of scoreInterval, in ms
LOOP_PERIOD == 100
SCORE_PERIOD == 1000

\* a variant of DrainPerTick: the drain of a whole second taken off in every
\* tick (the division by the ticks per second left out)
DrainPerSecond == F64Int(HEALTH_DRAIN_RATE)

\* HEALTH_DRAIN_RATE / (1000 / 100) = 1 / 10, correctly rounded: the double
\* 0x3FB999999999999A = 7205759403792794 * 2^-56
DrainPerTick == F64(FALSE, 1638, 838860, 1677722)

(***************************************************************************)
(* Bounds of the model.                                                    *)
(***************************************************************************)
\* channels (DataConnection objects) created in one run
MaxConns == 2
\* gameLoopInterval firings per game that the specification Spec follows
MaxTicks == 1
\* greatest target identifier a player action may name
MaxNodeId == 1
\* the score carried by a message of a remote host, when it is not 0
MaxRemoteScore == 1
\* in SpecGame a player acts on a target within this many gameLoopInterval
\* firings of its spawn
MaxReaction == 2

\* greatest score of the running games from which SpecDelay starts
MaxScore == 250

RemotePeers == {"A", "B"}
LocalId == "me"

(***************************************************************************)
(* State.  Page: +page.svelte lines 21-25 and 36-39.  Store: part_001      *)
(* lines 3-17.  conns holds the DataConnection objects whose handlers      *)
(* setupConnectionHandlers has attached; a channel is named by its index.  *)
(* sent is what the last handler handed to DataConnection.send, in order.  *)
(* removedLog and removedEver are history: the removals of targets from    *)
(* nodes since the last startGameHost, in order, and the set of all        *)
(* removals since the page was mounted, each as [id, by].  bornAt is        *)
(* history too: for each target spawnNode created that is still in nodes,  *)
(* [id, at] with the time at which the spawn timeout fired.                *)
(***************************************************************************)
VARIABLES
    gameRunning, pulseHealth, score, nodes, gameOver,
    gameLoopInterval, nodeSpawnInterval, scoreInterval, nextNodeId,
    peerInstance, peerId, isHost, connections, currentConnections,
    hostConnection, connectionStatus, connectedPeers, connectionError,
    conns, sent, removedLog, removedEver, bornAt

vars == <<gameRunning, pulseHealth, score, nodes, gameOver,
          gameLoopInterval, nodeSpawnInterval, scoreInterval, nextNodeId,
          peerInstance, peerId, isHost, connections, currentConnections,
          hostConnection, connectionStatus, connectedPeers, connectionError,
          conns, sent, removedLog, removedEver, bornAt>>

\* the state as one value, so that a handler and the calls it makes compose
State ==
    [gameRunning |-> gameRunning, pulseHealth |-> pulseHealth, score |-> score,
     nodes |-> nodes, gameOver |-> gameOver,
     gameLoopInterval |-> gameLoopInterval, nodeSpawnInterval |-> nodeSpawnInterval,
     scoreInterval |-> scoreInterval, nextNodeId |-> nextNodeId,
     peerInstance |-> peerInstance, peerId |-> peerId, isHost |-> isHost,
     connections |-> connections, currentConnections |-> currentConnections,
     hostConnection |-> hostConnection, connectionStatus |-> connectionStatus,
     connectedPeers |-> connectedPeers, connectionError |-> connectionError,
     conns |-> conns, sent |-> <<>>,
     removedLog |-> removedLog, removedEver |-> removedEver, bornAt |-> bornAt]

Becomes(s) ==
    /\ gameRunning' = s.gameRunning
    /\ pulseHealth' = s.pulseHealth
    /\ score' = s.score
    /\ nodes' = s.nodes
    /\ gameOver' = s.gameOver
    /\ gameLoopInterval' = s.gameLoopInterval
    /\ nodeSpawnInterval' = s.nodeSpawnInterval
    /\ scoreInterval' = s.scoreInterval
    /\ nextNodeId' = s.nextNodeId
    /\ peerInstance' = s.peerInstance
    /\ peerId' = s.peerId
    /\ isHost' = s.isHost
    /\ connections' = s.connections
    /\ currentConnections' = s.currentConnections
    /\ hostConnection' = s.hostConnection
    /\ connectionStatus' = s.connectionStatus
    /\ connectedPeers' = s.connectedPeers
    /\ connectionError' = s.connectionError
    /\ conns' = s.conns
    /\ sent' = s.sent
    /\ removedLog' = s.removedLog
    /\ removedEver' = s.removedEver
    /\ bornAt' = s.bornAt

(***************************************************************************)
(* Objects keyed by peer id (currentConnections, the connections store):   *)
(* a sequence of [peer, conn] in insertion order, the order of for-in.     *)
(***************************************************************************)
RECURSIVE Keys(_)
Keys(m) == IF m = <<>> THEN <<>> ELSE <<Head(m).peer>> \o Keys(Tail(m))

HasKey(m, p) == \E i \in 1..Len(m) : m[i].peer = p

Lookup(m, p) == m[CHOOSE i \in 1..Len(m) : m[i].peer = p].conn

\* m[p] = c
Assign(m, p, c) ==
    IF HasKey(m, p)
    THEN [i \in 1..Len(m) |-> IF m[i].peer = p THEN [peer |-> p, conn |-> c] ELSE m[i]]
    ELSE Append(m, [peer |-> p, conn |-> c])

\* delete m[p]
RECURSIVE Delete(_, _)
Delete(m, p) ==
    IF m = <<>> THEN <<>>
    ELSE IF Head(m).peer = p THEN Delete(Tail(m), p)
    ELSE <<Head(m)>> \o Delete(Tail(m), p)

\* DataConnection.send(data) on channel c
Send(s, c, data) == [s EXCEPT !.sent = Append(@, [to |-> c, data |-> data])]

(***************************************************************************)
(* Messages (+page.svelte lines 50-87, 276-293, 101, 271; part_001 75).    *)
(***************************************************************************)
Welcome == [type |-> "welcome"]

GameStateUpdate(st) == [type |-> "gameStateUpdate", state |-> st]

GameOverMsg(n) == [type |-> "gameOver", finalScore |-> n]

PlayerAction(id) == [type |-> "playerAction", action |-> "clickNode", nodeId |-> id]

PeerDisconnect(p) == [type |-> "peerDisconnect", peerId |-> p]

Node(id, timer) == [id |-> id, timer |-> timer]

\* history: the target id has left nodes, by "click" or by "expiry"
Removed(s, id, by) ==
    [s EXCEPT !.removedLog = Append(@, [id |-> id, by |-> by]),
              !.removedEver = @ \cup {[id |-> id, by |-> by]},
              !.bornAt = SelectSeq(@, LAMBDA b : b.id # id)]

RECURSIVE RemovedAll(_, _, _)
RemovedAll(s, ids, by) ==
    IF ids = <<>> THEN s
    ELSE RemovedAll(Removed(s, Head(ids), by), Tail(ids), by)

(***************************************************************************)
(* +page.svelte: timers.                                                   *)
(***************************************************************************)
\* a variant of stopGameTimers: the clearTimeout of line 221 left out
stopGameTimersKeepsSpawn(s) ==
    [s EXCEPT !.gameLoopInterval = 0, !.scoreInterval = 0]

\* lines 218-225
stopGameTimers(s) ==
    [s EXCEPT !.gameLoopInterval = 0, !.scoreInterval = 0, !.nodeSpawnInterval = 0]

Max(a, b) == IF a >= b THEN a ELSE b

\* a variant of SpawnDelay: the floor NODE_SPAWN_INTERVAL_MIN left out
SpawnDelayNoFloor(sc) == NODE_SPAWN_INTERVAL_START - (sc * 10)

\* line 209
SpawnDelay(sc) == Max(NODE_SPAWN_INTERVAL_MIN, NODE_SPAWN_INTERVAL_START - (sc * 10))

\* lines 207-214, called at time now
scheduleNextSpawn(s, now) ==
    IF ~s.gameRunning \/ s.gameOver THEN s
    ELSE [s EXCEPT !.nodeSpawnInterval = now + SpawnDelay(s.score)]

\* lines 157-216
startGameTimers(s) ==
    LET s1 == stopGameTimers(s)
        s2 == [s1 EXCEPT !.scoreInterval = SCORE_PERIOD, !.gameLoopInterval = LOOP_PERIOD]
    IN  scheduleNextSpawn(s2, 0)

\* the armed timer h fires next: no armed timer is due earlier
FiresNext(h) ==
    /\ h # 0
    /\ \A g \in {gameLoopInterval, scoreInterval, nodeSpawnInterval} : g # 0 => h <= g

(***************************************************************************)
(* part_001: sending, and the disconnect path it shares with the page.     *)
(* F is the set of channels on which DataConnection.send throws while the  *)
(* handler runs.                                                           *)
(***************************************************************************)
RECURSIVE broadcastData(_, _, _)
RECURSIVE BroadcastLoop(_, _, _, _)
RECURSIVE handleDisconnect(_, _, _)
RECURSIVE handleGameDisconnect(_, _, _)

\* a variant of handleGameDisconnect: the client branch left out
handleGameDisconnectKeepsGame(s, disconnectedPeerId, F) ==
    IF s.isHost
    THEN broadcastData(s, PeerDisconnect(disconnectedPeerId), F)
    ELSE s

\* a variant of BroadcastLoop: the first failing send ends the pass
RECURSIVE BroadcastLoopAborts(_, _, _, _)
BroadcastLoopAborts(s, ks, data, F) ==
    IF ks = <<>> THEN s
    ELSE LET p == Head(ks)
             c == Lookup(s.connections, p)
         IN  IF ~HasKey(s.connections, p) THEN BroadcastLoopAborts(s, Tail(ks), data, F)
             ELSE IF s.conns[c].st # "open" THEN BroadcastLoopAborts(s, Tail(ks), data, F)
             ELSE IF c \in F THEN handleDisconnect(s, p, F)
             ELSE BroadcastLoopAborts(Send(s, c, data), Tail(ks), data, F)

\* +page.svelte lines 90-103
handleGameDisconnect(s, disconnectedPeerId, F) ==
    IF ~s.isHost /\ s.hostConnection = 0
    THEN stopGameTimers([s EXCEPT !.gameOver = TRUE, !.gameRunning = FALSE,
                                  !.connectionError = "Lost connection to the host."])
    ELSE IF s.isHost
    THEN broadcastData(s, PeerDisconnect(disconnectedPeerId), F)
    ELSE s

\* a variant of handleDisconnect: connectedPeers.set of line 179 left out
handleDisconnectKeepsList(s, p, F) ==
    IF s.isHost
    THEN LET cc == Delete(s.currentConnections, p)
         IN  handleGameDisconnect(
                 [s EXCEPT !.currentConnections = cc, !.connections = cc], p, F)
    ELSE handleGameDisconnect(
             [s EXCEPT !.hostConnection = 0, !.connectionStatus = "disconnected",
                       !.connectionError = "Disconnected from host."], p, F)

\* part_001 lines 175-199
handleDisconnect(s, p, F) ==
    IF s.isHost
    THEN LET cc == Delete(s.currentConnections, p)
         IN  handleGameDisconnect(
                 [s EXCEPT !.currentConnections = cc, !.connections = cc,
                           !.connectedPeers = Keys(cc)], p, F)
    ELSE handleGameDisconnect(
             [s EXCEPT !.hostConnection = 0, !.connectionStatus = "disconnected",
                       !.connectionError = "Disconnected from host."], p, F)

\* part_001 lines 208-218: for-in over the object the store holds; a key
\* deleted before it is reached is not visited
BroadcastLoop(s, ks, data, F) ==
    IF ks = <<>> THEN s
    ELSE LET p == Head(ks)
             c == Lookup(s.connections, p)
             s1 == IF ~HasKey(s.connections, p) THEN s
                   ELSE IF s.conns[c].st # "open" THEN s
                   ELSE IF c \in F THEN handleDisconnect(s, p, F)
                   ELSE Send(s, c, data)
         IN  BroadcastLoop(s1, Tail(ks), data, F)

\* a variant of broadcastData: the test of line 205 left out
broadcastDataNoRoleCheck(s, data, F) ==
    BroadcastLoop(s, Keys(s.connections), data, F)

\* part_001 lines 204-219
broadcastData(s, data, F) ==
    IF ~s.isHost THEN s
    ELSE BroadcastLoop(s, Keys(s.connections), data, F)

\* a variant of sendDataToHost: !hostConn.open left out of the test of
\* line 224
sendDataToHostNoOpenCheck(s, data, F) ==
    IF s.isHost \/ s.hostConnection = 0 THEN s
    ELSE IF s.hostConnection \in F
    THEN handleDisconnect([s EXCEPT !.connectionError = "Failed to send data to host."],
                          s.conns[s.hostConnection].peer, F)
    ELSE Send(s, s.hostConnection, data)

\* part_001 lines 222-233
sendDataToHost(s, data, F) ==
    IF s.isHost \/ s.hostConnection = 0 THEN s
    ELSE IF s.conns[s.hostConnection].st # "open" THEN s
    ELSE IF s.hostConnection \in F
    THEN handleDisconnect([s EXCEPT !.connectionError = "Failed to send data to host."],
                          s.conns[s.hostConnection].peer, F)
    ELSE Send(s, s.hostConnection, data)

(***************************************************************************)
(* +page.svelte: game logic.                                               *)
(***************************************************************************)
\* lines 276-286
broadcastGameState(s, F) ==
    IF ~s.isHost THEN s
    ELSE broadcastData(s,
             GameStateUpdate([health |-> s.pulseHealth, score |-> s.score,
                              nodes |-> s.nodes, running |-> s.gameRunning,
                              gameOver |-> s.gameOver]), F)

\* a variant of broadcastGameOver: broadcastData of line 292 left out
broadcastGameOverSilent(s, F) ==
    IF ~s.isHost THEN s
    ELSE stopGameTimers(s)

\* lines 288-293
broadcastGameOver(s, F) ==
    IF ~s.isHost THEN s
    ELSE broadcastData(stopGameTimers(s), GameOverMsg(s.score), F)

\* line 123: !Object.keys($connections).length === 0 compares a boolean with
\* the number 0, which is false for every length
NotLengthIsZero(m) == FALSE

\* lines 118-144
startGameHost(s, F) ==
    LET refused == /\ ~s.isHost \/ s.gameRunning \/ Len(s.connections) = 0
                   /\ NotLengthIsZero(s.connections) /\ ~s.isHost
    IN  IF refused THEN s
        ELSE broadcastGameState(
                 startGameTimers(
                     [s EXCEPT !.gameOver = FALSE,
                               !.pulseHealth = F64Int(MAX_HEALTH),
                               !.score = 0,
                               !.nodes = <<>>,
                               !.nextNodeId = 0,
                               !.gameRunning = TRUE,
                               !.removedLog = <<>>,
                               !.bornAt = <<>>]), F)

\* lines 161-166
scoreCallback(s) ==
    IF ~s.gameRunning \/ s.gameOver THEN s
    ELSE [s EXCEPT !.score = @ + 1]

\* a variant of UpdateNodes: the miss penalty taken off without Math.max
RECURSIVE UpdateNodesUnclamped(_, _)
UpdateNodesUnclamped(ns, acc) ==
    IF ns = <<>> THEN acc
    ELSE LET t == Head(ns).timer - LOOP_PERIOD
         IN  IF t <= 0
             THEN UpdateNodesUnclamped(Tail(ns),
                      [acc EXCEPT !.health = F64Sub(@, F64Int(HEALTH_LOSS_PER_MISS)),
                                  !.missed = TRUE,
                                  !.gone = Append(@, Head(ns).id)])
             ELSE UpdateNodesUnclamped(Tail(ns),
                      [acc EXCEPT !.nodes = Append(@, Node(Head(ns).id, t))])

\* lines 178-187: the map over nodes, left to right, then the filter;
\* acc is [health, nodes, missed, gone]
RECURSIVE UpdateNodes(_, _)
UpdateNodes(ns, acc) ==
    IF ns = <<>> THEN acc
    ELSE LET t == Head(ns).timer - LOOP_PERIOD
         IN  IF t <= 0
             THEN UpdateNodes(Tail(ns),
                      [acc EXCEPT !.health = MathMax(F64Zero,
                                      F64Sub(@, F64Int(HEALTH_LOSS_PER_MISS))),
                                  !.missed = TRUE,
                                  !.gone = Append(@, Head(ns).id)])
             ELSE UpdateNodes(Tail(ns),
                      [acc EXCEPT !.nodes = Append(@, Node(Head(ns).id, t))])

\* a variant of gameLoopCallback: the game-over test of line 190 made strict
gameLoopCallbackStrictZero(s, F) ==
    IF ~s.gameRunning \/ s.gameOver THEN s
    ELSE LET drained == MathMax(F64Zero, F64Sub(s.pulseHealth, DrainPerTick))
             u  == UpdateNodes(s.nodes, [health |-> drained, nodes |-> <<>>,
                                         missed |-> FALSE, gone |-> <<>>])
             s1 == RemovedAll([s EXCEPT !.pulseHealth = u.health, !.nodes = u.nodes],
                              u.gone, "expiry")
         IN  IF F64Less(s1.pulseHealth, F64Zero)
             THEN broadcastGameOver(
                      stopGameTimers([s1 EXCEPT !.gameOver = TRUE, !.gameRunning = FALSE]), F)
             ELSE IF u.missed \/ s1.score % 5 = 0
             THEN broadcastGameState(s1, F)
             ELSE s1

\* lines 169-204
gameLoopCallback(s, F) ==
    IF ~s.gameRunning \/ s.gameOver THEN s
    ELSE LET drained == MathMax(F64Zero, F64Sub(s.pulseHealth, DrainPerTick))
             u  == UpdateNodes(s.nodes, [health |-> drained, nodes |-> <<>>,
                                         missed |-> FALSE, gone |-> <<>>])
             s1 == RemovedAll([s EXCEPT !.pulseHealth = u.health, !.nodes = u.nodes],
                              u.gone, "expiry")
         IN  IF F64Leq(s1.pulseHealth, F64Zero)
             THEN broadcastGameOver(
                      stopGameTimers([s1 EXCEPT !.gameOver = TRUE, !.gameRunning = FALSE]), F)
             ELSE IF u.missed \/ s1.score % 5 = 0
             THEN broadcastGameState(s1, F)
             ELSE s1

\* lines 227-240
spawnNode(s) ==
    IF ~s.isHost \/ ~s.gameRunning \/ s.gameOver THEN s
    ELSE [s EXCEPT !.nodes = Append(@, Node(s.nextNodeId, NODE_TIMER_DURATION)),
                   !.nextNodeId = @ + 1]

\* a variant of handleNodeClick: the gain is paid and the state broadcast
\* without the test of line 247 that the target was found
handleNodeClickNoLookup(s, nodeId, F) ==
    IF ~s.isHost \/ ~s.gameRunning \/ s.gameOver THEN s
    ELSE broadcastGameState(
             [s EXCEPT !.pulseHealth = MathMin(F64Int(MAX_HEALTH),
                                           F64Add(@, F64Int(HEALTH_GAIN_PER_CLICK))),
                       !.nodes = SelectSeq(@, LAMBDA n : n.id # nodeId)], F)

\* a variant of handleNodeClick: the test of line 244 left out
handleNodeClickUnguarded(s, nodeId, F) ==
    IF \E i \in 1..Len(s.nodes) : s.nodes[i].id = nodeId
    THEN broadcastGameState(
             Removed([s EXCEPT !.pulseHealth = MathMin(F64Int(MAX_HEALTH),
                                                   F64Add(@, F64Int(HEALTH_GAIN_PER_CLICK))),
                               !.nodes = SelectSeq(@, LAMBDA n : n.id # nodeId)],
                     nodeId, "click"), F)
    ELSE s

\* a variant of handleNodeClick: the gain added without Math.min
handleNodeClickUnclamped(s, nodeId, F) ==
    IF ~s.isHost \/ ~s.gameRunning \/ s.gameOver THEN s
    ELSE IF \E i \in 1..Len(s.nodes) : s.nodes[i].id = nodeId
    THEN broadcastGameState(
             Removed([s EXCEPT !.pulseHealth = F64Add(@, F64Int(HEALTH_GAIN_PER_CLICK)),
                               !.nodes = SelectSeq(@, LAMBDA n : n.id # nodeId)],
                     nodeId, "click"), F)
    ELSE s

\* lines 243-259
handleNodeClick(s, nodeId, F) ==
    IF ~s.isHost \/ ~s.gameRunning \/ s.gameOver THEN s
    ELSE IF \E i \in 1..Len(s.nodes) : s.nodes[i].id = nodeId
    THEN broadcastGameState(
             Removed([s EXCEPT !.pulseHealth = MathMin(F64Int(MAX_HEALTH),
                                                   F64Add(@, F64Int(HEALTH_GAIN_PER_CLICK))),
                               !.nodes = SelectSeq(@, LAMBDA n : n.id # nodeId)],
                     nodeId, "click"), F)
    ELSE s

\* lines 262-273
onNodeInteraction(s, nodeId, F) ==
    IF ~s.gameRunning \/ s.gameOver THEN s
    ELSE IF s.isHost THEN handleNodeClick(s, nodeId, F)
    ELSE sendDataToHost(s, PlayerAction(nodeId), F)

\* a variant of handleGameData: gameRunning = false of line 73 left out
handleGameDataKeepsRunning(s, data, senderPeerId, F) ==
    IF ~s.isHost /\ data.type = "gameStateUpdate"
    THEN IF s.hostConnection # 0 /\ senderPeerId = s.conns[s.hostConnection].peer
         THEN [s EXCEPT !.pulseHealth = data.state.health,
                        !.score = data.state.score,
                        !.nodes = data.state.nodes,
                        !.gameRunning = data.state.running,
                        !.gameOver = data.state.gameOver]
         ELSE s
    ELSE IF s.isHost /\ data.type = "playerAction"
    THEN IF data.action = "clickNode" THEN handleNodeClick(s, data.nodeId, F) ELSE s
    ELSE IF ~s.isHost /\ data.type = "gameOver"
    THEN LET s1 == stopGameTimers([s EXCEPT !.gameOver = TRUE])
         IN  IF data.finalScore # 0 THEN [s1 EXCEPT !.score = data.finalScore] ELSE s1
    ELSE s

\* lines 50-87
handleGameData(s, data, senderPeerId, F) ==
    IF ~s.isHost /\ data.type = "gameStateUpdate"
    THEN IF s.hostConnection # 0 /\ senderPeerId = s.conns[s.hostConnection].peer
         THEN [s EXCEPT !.pulseHealth = data.state.health,
                        !.score = data.state.score,
                        !.nodes = data.state.nodes,
                        !.gameRunning = data.state.running,
                        !.gameOver = data.state.gameOver]
         ELSE s
    ELSE IF s.isHost /\ data.type = "playerAction"
    THEN IF data.action = "clickNode" THEN handleNodeClick(s, data.nodeId, F) ELSE s
    ELSE IF ~s.isHost /\ data.type = "gameOver"
    THEN LET s1 == stopGameTimers([s EXCEPT !.gameOver = TRUE, !.gameRunning = FALSE])
         IN  IF data.finalScore # 0 THEN [s1 EXCEPT !.score = data.finalScore] ELSE s1
    ELSE s

\* lines 330-340: the reactive block, run when the handler returns
ReactiveBlock(s) ==
    IF s.connectionStatus \in {"disconnected", "error"} /\ (s.gameRunning \/ s.gameOver)
    THEN [stopGameTimers(s) EXCEPT !.gameRunning = FALSE, !.gameOver = TRUE]
    ELSE s

\* a handler that leaves the page and the store in state s
Do(s) == Becomes(ReactiveBlock(s))

(***************************************************************************)
(* part_001: connection lifecycle.                                         *)
(***************************************************************************)
Conn(p, dir) == [peer |-> p, dir |-> dir, st |-> "pending"]

\* lines 147-172, for the channel c just created; the three conn.on(...)
\* registrations are the actions ConnData, ConnClose and ConnError
setupConnectionHandlers(s, c) ==
    IF s.isHost
    THEN LET cc == Assign(s.currentConnections, s.conns[c].peer, c)
         IN  [s EXCEPT !.currentConnections = cc, !.connections = cc,
                       !.connectedPeers = Keys(cc)]
    ELSE s

\* a variant of connectToHost: the test of line 123 left out
connectToHostNoIdCheck(s, hostId) ==
    IF s.peerInstance = "null"
    THEN [s EXCEPT !.connectionError = "Cannot connect: PeerJS not ready."]
    ELSE LET c == Len(s.conns) + 1
         IN  setupConnectionHandlers(
                 [s EXCEPT !.connectionStatus = "connecting",
                           !.isHost = FALSE,
                           !.conns = Append(@, Conn(hostId, "out")),
                           !.hostConnection = c], c)

\* lines 117-143
connectToHost(s, hostId) ==
    IF s.peerInstance = "null"
    THEN [s EXCEPT !.connectionError = "Cannot connect: PeerJS not ready."]
    ELSE IF hostId = ""
    THEN [s EXCEPT !.connectionError = "Please enter a Host Game ID."]
    ELSE LET c == Len(s.conns) + 1
         IN  setupConnectionHandlers(
                 [s EXCEPT !.connectionStatus = "connecting",
                           !.isHost = FALSE,
                           !.conns = Append(@, Conn(hostId, "out")),
                           !.hostConnection = c], c)

\* the channels on which a send can throw: the open ones a handler can send
\* on, which are those of the connections store on a host (broadcastData)
\* and hostConnection on a client (sendDataToHost)
OpenConns ==
    {c \in 1..Len(conns) :
        /\ conns[c].st = "open"
        /\ IF isHost THEN \E i \in 1..Len(connections) : connections[i].conn = c
           ELSE c = hostConnection}

\* what a remote host sends on a channel this tab opened to it, and what a
\* remote client sends on a channel it opened to this tab
RemoteStates ==
    { [health |-> F64Int(MAX_HEALTH), score |-> 0, nodes |-> <<>>,
       running |-> TRUE, gameOver |-> FALSE],
      [health |-> F64Sub(F64Int(MAX_HEALTH), DrainPerTick), score |-> MaxRemoteScore,
       nodes |-> <<Node(0, NODE_TIMER_DURATION)>>,
       running |-> TRUE, gameOver |-> FALSE] }

HostMsgs ==
    {Welcome} \cup {GameStateUpdate(st) : st \in RemoteStates}
              \cup {GameOverMsg(n) : n \in {0, MaxRemoteScore}}
              \cup {PeerDisconnect(p) : p \in RemotePeers}

ClientMsgs == {PlayerAction(id) : id \in 0..MaxNodeId}

MsgsOn(c) == IF conns[c].dir = "out" THEN HostMsgs ELSE ClientMsgs

\* the sets F a handler is followed with: every set of channels it can send
\* on, and the empty set alone when it sends nothing in this state
Failing(sends) == IF sends THEN SUBSET OpenConns ELSE {{}}

(***************************************************************************)
(* Actions: one per handler.                                               *)
(***************************************************************************)
\* part_001 lines 52-63: peerInstance.on('open')
PeerOpen ==
    /\ peerInstance = "live" /\ peerId = ""
    /\ Do([State EXCEPT !.peerId = LocalId, !.connectionStatus = "ready"])

\* part_001 lines 66-79: peerInstance.on('connection')
IncomingConnection(p) ==
    /\ peerInstance = "live" /\ peerId # ""
    /\ Len(conns) < MaxConns
    /\ Do(setupConnectionHandlers(
              [State EXCEPT !.connectionStatus = "connected",
                            !.isHost = TRUE,
                            !.conns = Append(@, Conn(p, "in"))], Len(conns) + 1))

\* conn.on('open'): part_001 lines 74-78 for a channel accepted, lines
\* 138-142 for a channel opened by connectToHost
ConnOpen(c) ==
    /\ conns[c].st = "pending"
    /\ LET s1 == [State EXCEPT !.conns[c].st = "open"]
       IN  Do(IF conns[c].dir = "in" THEN Send(s1, c, Welcome)
              ELSE [s1 EXCEPT !.connectionStatus = "connected"])

\* conn.on('data'): part_001 lines 148-152 and 257-264
ConnData(c, data, F) ==
    /\ conns[c].st = "open"
    /\ Do(handleGameData(State, data, conns[c].peer, F))

\* conn.on('close'): part_001 lines 154-157
ConnClose(c, F) ==
    /\ conns[c].st # "closed"
    /\ Do(handleDisconnect([State EXCEPT !.conns[c].st = "closed"], conns[c].peer, F))

\* conn.on('error'): part_001 lines 159-164
ConnError(c, F) ==
    /\ conns[c].st # "closed"
    /\ Do(handleDisconnect([State EXCEPT !.connectionError = "Connection Error"],
                           conns[c].peer, F))

\* part_001 lines 117-143 (joinGame, +page.svelte lines 147-153)
ConnectToHost(hostId) ==
    /\ (peerInstance # "null" /\ hostId # "") => Len(conns) < MaxConns
    /\ Do(connectToHost(State, hostId))

\* part_001 lines 81-86: peerInstance.on('disconnected')
PeerDisconnected ==
    /\ peerInstance = "live" /\ peerId # ""
    /\ Do([State EXCEPT !.connectionStatus = "disconnected"])

\* part_001 lines 100-111: peerInstance.on('error')
PeerError(type) ==
    /\ peerInstance = "live"
    /\ Do(IF type = "peer-unavailable"
          THEN [State EXCEPT !.connectionError = "PeerJS Error",
                             !.connectionStatus = "error", !.hostConnection = 0]
          ELSE [State EXCEPT !.connectionError = "PeerJS Error",
                             !.connectionStatus = "error"])

\* +page.svelte lines 118-144
StartGameHost(F) ==
    Do(startGameHost(State, F))

\* +page.svelte lines 169-204: gameLoopInterval fires
LoopTick(F) ==
    /\ FiresNext(gameLoopInterval)
    /\ Do(gameLoopCallback([State EXCEPT !.gameLoopInterval = @ + LOOP_PERIOD], F))

\* +page.svelte lines 161-166: scoreInterval fires
ScoreTick ==
    /\ FiresNext(scoreInterval)
    /\ Do(scoreCallback([State EXCEPT !.scoreInterval = @ + SCORE_PERIOD]))

\* history: the targets that spawnNode has just appended were created at now
Born(s, now) ==
    [s EXCEPT !.bornAt =
         @ \o [i \in 1..(Len(s.nodes) - Len(nodes)) |->
                  [id |-> s.nodes[Len(nodes) + i].id, at |-> now]]]

\* +page.svelte lines 210-213: the spawn timeout fires
SpawnFire ==
    /\ FiresNext(nodeSpawnInterval)
    /\ Do(scheduleNextSpawn(Born(spawnNode([State EXCEPT !.nodeSpawnInterval = 0]),
                                 nodeSpawnInterval),
                            nodeSpawnInterval))

\* +page.svelte lines 262-273 (a click on a node)
OnNodeInteraction(nodeId, F) ==
    Do(onNodeInteraction(State, nodeId, F))

\* +page.svelte lines 437 and 441: the two "Back to Lobby" buttons, rendered
\* in the game-over branch of the connected view
BackToLobby ==
    /\ connectionStatus = "connected" /\ gameOver /\ ~gameRunning
    /\ Do([State EXCEPT !.connectionStatus = "ready", !.gameOver = FALSE,
                        !.gameRunning = FALSE, !.isHost = FALSE])

Init ==
    /\ gameRunning = FALSE
    /\ pulseHealth = F64Int(MAX_HEALTH)
    /\ score = 0
    /\ nodes = <<>>
    /\ gameOver = FALSE
    /\ gameLoopInterval = 0
    /\ nodeSpawnInterval = 0
    /\ scoreInterval = 0
    /\ nextNodeId = 0
    /\ peerInstance = "live"
    /\ peerId = ""
    /\ isHost = FALSE
    /\ connections = <<>>
    /\ currentConnections = <<>>
    /\ hostConnection = 0
    /\ connectionStatus = "connecting"
    /\ connectedPeers = <<>>
    /\ connectionError = ""
    /\ conns = <<>>
    /\ sent = <<>>
    /\ removedLog = <<>>
    /\ removedEver = {}
    /\ bornAt = <<>>

Next ==
    \/ PeerOpen
    \/ \E p \in RemotePeers : IncomingConnection(p)
    \/ \E c \in 1..Len(conns) : ConnOpen(c)
    \/ \E c \in 1..Len(conns) : \E data \in MsgsOn(c) :
           \E F \in Failing(isHost /\ gameRunning /\ data.type = "playerAction") :
               ConnData(c, data, F)
    \/ \E c \in 1..Len(conns), F \in Failing(isHost) : ConnClose(c, F)
    \/ \E c \in 1..Len(conns), F \in Failing(isHost) : ConnError(c, F)
    \/ \E hostId \in RemotePeers \cup {""} : ConnectToHost(hostId)
    \/ PeerDisconnected
    \/ \E type \in {"peer-unavailable", "network"} : PeerError(type)
    \/ \E F \in Failing(isHost) : StartGameHost(F)
    \/ \E F \in Failing(isHost) : gameLoopInterval <= MaxTicks * LOOP_PERIOD /\ LoopTick(F)
    \/ \E id \in 0..MaxNodeId, F \in Failing(gameRunning) : OnNodeInteraction(id, F)
    \/ BackToLobby

Spec == Init /\ [][Next]_vars

(***************************************************************************)
(* SpecGame: a whole game on a host.  It starts where the tab has accepted *)
(* and opened one channel from peer A (reached in Spec by PeerOpen,        *)
(* IncomingConnection and ConnOpen) and follows the three timers to the    *)
(* end of the game, with the host's own clicks, the player actions of A    *)
(* and the loss of the signalling server.  No send throws.                 *)
(***************************************************************************)
HostWithOnePeer ==
    /\ gameRunning = FALSE
    /\ pulseHealth = F64Int(MAX_HEALTH)
    /\ score = 0
    /\ nodes = <<>>
    /\ gameOver = FALSE
    /\ gameLoopInterval = 0
    /\ nodeSpawnInterval = 0
    /\ scoreInterval = 0
    /\ nextNodeId = 0
    /\ peerInstance = "live"
    /\ peerId = LocalId
    /\ isHost = TRUE
    /\ connections = <<[peer |-> "A", conn |-> 1]>>
    /\ currentConnections = <<[peer |-> "A", conn |-> 1]>>
    /\ hostConnection = 0
    /\ connectionStatus = "connected"
    /\ connectedPeers = <<"A">>
    /\ connectionError = ""
    /\ conns = <<[peer |-> "A", dir |-> "in", st |-> "open"]>>

InitGame ==
    /\ HostWithOnePeer
    /\ sent = <<[to |-> 1, data |-> Welcome]>>
    /\ removedLog = <<>>
    /\ removedEver = {}
    /\ bornAt = <<>>

\* a target a player still reacts to
Fresh(id) ==
    \E i \in 1..Len(nodes) :
        /\ nodes[i].id = id
        /\ nodes[i].timer >= NODE_TIMER_DURATION - MaxReaction * LOOP_PERIOD

\* a click names a target on screen that the player still reacts to, or one
\* that has left the screen
Clickable(id) == Fresh(id) \/ ~\E i \in 1..Len(nodes) : nodes[i].id = id

NextGame ==
    \/ StartGameHost({})
    \/ LoopTick({})
    \/ ScoreTick
    \/ SpawnFire
    \/ \E id \in 0..MaxNodeId : Clickable(id) /\ OnNodeInteraction(id, {})
    \/ \E id \in 0..MaxNodeId : Clickable(id) /\ ConnData(1, PlayerAction(id), {})
    \/ PeerDisconnected

SpecGame == InitGame /\ [][NextGame]_vars

(***************************************************************************)
(* SpecDrain: the scenario "no targets and no interactions".  The host of  *)
(* SpecGame has just started a game and the spawn timeout is left out, so  *)
(* that only gameLoopInterval and scoreInterval fire, each at its time.    *)
(***************************************************************************)
InitDrain ==
    /\ gameRunning = TRUE
    /\ pulseHealth = F64Int(MAX_HEALTH)
    /\ score = 0
    /\ nodes = <<>>
    /\ gameOver = FALSE
    /\ gameLoopInterval = LOOP_PERIOD
    /\ nodeSpawnInterval = 0
    /\ scoreInterval = SCORE_PERIOD
    /\ nextNodeId = 0
    /\ peerInstance = "live"
    /\ peerId = LocalId
    /\ isHost = TRUE
    /\ connections = <<[peer |-> "A", conn |-> 1]>>
    /\ currentConnections = <<[peer |-> "A", conn |-> 1]>>
    /\ hostConnection = 0
    /\ connectionStatus = "connected"
    /\ connectedPeers = <<"A">>
    /\ connectionError = ""
    /\ conns = <<[peer |-> "A", dir |-> "in", st |-> "open"]>>
    /\ sent = <<>>
    /\ removedLog = <<>>
    /\ removedEver = {}
    /\ bornAt = <<>>

NextDrain ==
    \/ LoopTick({})
    \/ ScoreTick

SpecDrain == InitDrain /\ [][NextDrain]_vars

(***************************************************************************)
(* SpecBroadcast: a host with three registered peers whose channels are    *)
(* open (reached as in Spec by PeerOpen and three rounds of                *)
(* IncomingConnection and ConnOpen).  Games are started and ticked while   *)
(* channels close, report errors, and sends throw.                         *)
(***************************************************************************)
BroadcastPeers == <<"A", "B", "C">>

InitBroadcast ==
    /\ gameRunning = FALSE
    /\ pulseHealth = F64Int(MAX_HEALTH)
    /\ score = 0
    /\ nodes = <<>>
    /\ gameOver = FALSE
    /\ gameLoopInterval = 0
    /\ nodeSpawnInterval = 0
    /\ scoreInterval = 0
    /\ nextNodeId = 0
    /\ peerInstance = "live"
    /\ peerId = LocalId
    /\ isHost = TRUE
    /\ connections = [i \in 1..Len(BroadcastPeers) |-> [peer |-> BroadcastPeers[i], conn |-> i]]
    /\ currentConnections = connections
    /\ hostConnection = 0
    /\ connectionStatus = "connected"
    /\ connectedPeers = BroadcastPeers
    /\ connectionError = ""
    /\ conns = [i \in 1..Len(BroadcastPeers) |->
                   [peer |-> BroadcastPeers[i], dir |-> "in", st |-> "open"]]
    /\ sent = <<[to |-> Len(BroadcastPeers), data |-> Welcome]>>
    /\ removedLog = <<>>
    /\ removedEver = {}
    /\ bornAt = <<>>

NextBroadcast ==
    \/ \E F \in SUBSET OpenConns : StartGameHost(F)
    \/ \E F \in SUBSET OpenConns : gameLoopInterval <= MaxTicks * LOOP_PERIOD /\ LoopTick(F)
    \/ \E c \in 1..Len(conns), F \in SUBSET OpenConns : ConnClose(c, F)
    \/ \E c \in 1..Len(conns), F \in SUBSET OpenConns : ConnError(c, F)

SpecBroadcast == InitBroadcast /\ [][NextBroadcast]_vars

(***************************************************************************)
(* Properties.                                                             *)
(***************************************************************************)
timers == <<gameLoopInterval, nodeSpawnInterval, scoreInterval>>

mirror == <<pulseHealth, score, nodes, gameRunning, gameOver>>

InRange(h) == F64Leq(F64Zero, h) /\ F64Leq(h, F64Int(MAX_HEALTH))

\* the messages of type t that the last handler sent on channel c
SentTo(c, t) == {i \in 1..Len(sent) : sent[i].to = c /\ sent[i].data.type = t}

\* C1: startGameHost called while the game is running changes none of
\* health, score, the targets, the next target identifier, the running and
\* over flags and the timers, and broadcasts nothing.
C1_StartWhileRunningIsNoOp ==
    [][(gameRunning /\ StartGameHost({}))
          => /\ UNCHANGED <<pulseHealth, score, nodes, nextNodeId, gameRunning, gameOver>>
             /\ UNCHANGED timers
             /\ sent' = <<>>]_vars

\* C2: on the host, health is within [0, MAX_HEALTH] in every state, and so
\* is the health of every snapshot the host broadcasts.
C2_HealthInRange ==
    isHost =>
        /\ InRange(pulseHealth)
        /\ \A i \in 1..Len(sent) :
               sent[i].data.type = "gameStateUpdate" => InRange(sent[i].data.state.health)

\* C2 witness: the game has ended with health at 0 after a target expired,
\* and earlier a click had been paid with the health gain.
C2_Witness ==
    /\ isHost /\ gameOver /\ pulseHealth = F64Zero
    /\ \E i, j \in 1..Len(removedLog) :
           removedLog[i].by = "click" /\ removedLog[j].by = "expiry"

\* C3: no target identifier is removed both by a click and by expiry, at
\* any time since the page was mounted.
C3_OneRemovalPerIdentifier ==
    \A r1, r2 \in removedEver : r1.id = r2.id => r1.by = r2.by

\* C4: once over is true on the host, a step that is not startGameHost
\* changes none of health, score and the targets.
C4_OverIsTerminal ==
    [][(isHost /\ gameOver /\ ~StartGameHost({}))
          => UNCHANGED <<pulseHealth, score, nodes>>]_vars

\* C4 witness: the game is over on the host while a target is still on
\* screen: the timers are stopped and the last handler broadcast nothing.
C4_Witness ==
    /\ isHost /\ gameOver /\ ~gameRunning
    /\ nodes # <<>>
    /\ timers = <<0, 0, 0>>
    /\ sent = <<>>

\* C5: on a client bound to a host, a gameStateUpdate or gameOver message
\* that arrives on a channel other than the current hostConnection changes
\* none of health, score, targets, running and over.
C5_OnlyBoundHostChannel ==
    [][\A c \in 1..Len(conns) : \A data \in HostMsgs :
           (/\ ~isHost
            /\ hostConnection # 0
            /\ c # hostConnection
            /\ data.type \in {"gameStateUpdate", "gameOver"}
            /\ ConnData(c, data, {}))
               => UNCHANGED mirror]_vars

\* C6: in the broadcast of a snapshot by startGameHost or by a tick, every
\* registered peer whose channel is open and whose send does not throw is
\* sent the snapshot exactly once, and the handler completes, whichever
\* other sends throw.
C6_BroadcastIsolation ==
    [][\A F \in SUBSET OpenConns :
           (isHost /\ (StartGameHost(F) \/ LoopTick(F)))
               => \A c \in OpenConns \ F : Cardinality(SentTo(c, "gameStateUpdate")') = 1]_vars

\* C6 witness: one pass sent the snapshot to two peers and the notice of
\* the third peer's departure, whose send had thrown while its channel
\* stayed open.
C6_Witness ==
    /\ isHost /\ gameRunning /\ gameLoopInterval = LOOP_PERIOD
    /\ Len(connections) = 2
    /\ \A c \in 1..Len(conns) : conns[c].st = "open"
    /\ \E c \in 1..Len(conns) :
           /\ ~\E i \in 1..Len(connections) : connections[i].conn = c
           /\ \A d \in 1..Len(conns) \ {c} :
                  /\ Cardinality(SentTo(d, "gameStateUpdate")) = 1
                  /\ Cardinality(SentTo(d, "peerDisconnect")) = 1

\* C7: once a channel has been created (the tab has called connectToHost or
\* accepted a connection), no handler other than the Back to Lobby button
\* changes isHost.
C7_RoleFixed ==
    [][(conns # <<>> /\ ~BackToLobby) => isHost' = isHost]_vars

\* C8: on a client bound to a host, no timer and no local action
\* (startGameHost, a click) changes any of health, score, targets, running
\* and over.
C8_ClientMirrorNotLocal ==
    [][(/\ ~isHost
        /\ hostConnection # 0
        /\ \/ StartGameHost({})
           \/ LoopTick({})
           \/ \E id \in 0..MaxNodeId : OnNodeInteraction(id, {}))
          => UNCHANGED mirror]_vars

\* C9: when the channel held in hostConnection closes or reports an error
\* on a client, the same handler clears hostConnection, sets the status to
\* disconnected and ends the game (over true, running false).
C9_HostChannelLoss ==
    [][\A c \in 1..Len(conns) :
           (/\ ~isHost
            /\ c = hostConnection
            /\ ConnClose(c, {}) \/ ConnError(c, {}))
               => /\ hostConnection' = 0
                  /\ connectionStatus' = "disconnected"
                  /\ gameOver'
                  /\ ~gameRunning']_vars

\* C9 witness: a client that mirrored a running game has lost the channel
\* to its host.
C9_Witness ==
    /\ ~isHost /\ hostConnection = 0 /\ connectionStatus = "disconnected"
    /\ gameOver /\ ~gameRunning
    /\ nodes # <<>>
    /\ \E c \in 1..Len(conns) : conns[c].dir = "out" /\ conns[c].st = "closed"

BornAt(id) == bornAt[CHOOSE b \in 1..Len(bornAt) : bornAt[b].id = id].at

\* the targets that the tick about to fire removes
Expiring == {i \in 1..Len(nodes) : nodes[i].timer <= LOOP_PERIOD}

\* C11: a target created at time T that is still on screen is removed by a
\* tick that fires no earlier than T + NODE_TIMER_DURATION; that tick takes
\* the target out of nodes and takes the miss penalty off the drained
\* health, clamped at 0.
C11_ExpiryAfterLifetime ==
    [][(gameRunning /\ ~gameOver /\ LoopTick({}))
          => \A i \in Expiring :
                 /\ gameLoopInterval >= BornAt(nodes[i].id) + NODE_TIMER_DURATION
                 /\ ~\E j \in 1..Len(nodes') : nodes'[j].id = nodes[i].id
                 /\ Cardinality(Expiring) = 1
                        => pulseHealth' =
                               MathMax(F64Zero,
                                   F64Sub(MathMax(F64Zero, F64Sub(pulseHealth, DrainPerTick)),
                                          F64Int(HEALTH_LOSS_PER_MISS)))]_vars

\* the target id is in nodes
OnScreen(id) == \E i \in 1..Len(nodes) : nodes[i].id = id

\* C12: when the host handles an interaction (a player action of a peer or
\* its own click) for an identifier that is not in nodes, none of health,
\* score, targets, running and over changes and nothing is sent.
C12_AbsentTargetIsNoOp ==
    [][\A id \in 0..MaxNodeId :
           (/\ isHost
            /\ ~OnScreen(id)
            /\ ConnData(1, PlayerAction(id), {}) \/ OnNodeInteraction(id, {}))
               => UNCHANGED mirror /\ sent' = <<>>]_vars

\* C12 witness: the game runs with a target on screen, target 0 has expired
\* and the last handler sent nothing, as after a player action for target 0.
C12_Witness ==
    /\ isHost /\ gameRunning /\ ~gameOver
    /\ ~OnScreen(0) /\ nodes # <<>>
    /\ \E i \in 1..Len(removedLog) : removedLog[i] = [id |-> 0, by |-> "expiry"]
    /\ sent = <<>>

(***************************************************************************)
(* SpecDelay: the spawn delay as a function of the score.  A game runs on  *)
(* the host of SpecGame with any score up to MaxScore; the clock stands    *)
(* halfway between two ticks of that second, the spawn timeout is due and  *)
(* fires: spawnNode creates a target and scheduleNextSpawn computes the    *)
(* next delay from the score.                                              *)
(***************************************************************************)
InitDelay ==
    /\ score \in 0..MaxScore
    /\ gameRunning = TRUE
    /\ pulseHealth = F64Int(MAX_HEALTH \div 2)
    /\ nodes = <<>>
    /\ gameOver = FALSE
    /\ gameLoopInterval = SCORE_PERIOD * score + LOOP_PERIOD
    /\ nodeSpawnInterval = SCORE_PERIOD * score + LOOP_PERIOD \div 2
    /\ scoreInterval = SCORE_PERIOD * (score + 1)
    /\ nextNodeId = 0
    /\ peerInstance = "live"
    /\ peerId = LocalId
    /\ isHost = TRUE
    /\ connections = <<[peer |-> "A", conn |-> 1]>>
    /\ currentConnections = <<[peer |-> "A", conn |-> 1]>>
    /\ hostConnection = 0
    /\ connectionStatus = "connected"
    /\ connectedPeers = <<"A">>
    /\ connectionError = ""
    /\ conns = <<[peer |-> "A", dir |-> "in", st |-> "open"]>>
    /\ sent = <<>>
    /\ removedLog = <<>>
    /\ removedEver = {}
    /\ bornAt = <<>>

NextDelay == SpawnFire

SpecDelay == InitDelay /\ [][NextDelay]_vars

\* C13: the delay that scheduleNextSpawn computes at score s is
\* max(800, 3000 - 10 * s); it is never below 800 and never above the
\* delay of any smaller score.
C13_SpawnDelayMonotone ==
    (bornAt # <<>> /\ nodeSpawnInterval # 0) =>
        LET delay == nodeSpawnInterval - bornAt[1].at
        IN  /\ delay = Max(800, 3000 - 10 * score)
            /\ delay >= NODE_SPAWN_INTERVAL_MIN
            /\ \A s1 \in 0..score : delay <= SpawnDelay(s1)

\* C13 witness: the spawn timeout has fired at a score at which the floor
\* applies, and the next spawn is due 800 ms later.
C13_Witness ==
    /\ bornAt # <<>> /\ score > 220
    /\ nodeSpawnInterval = bornAt[1].at + NODE_SPAWN_INTERVAL_MIN
    /\ nodes = <<Node(0, NODE_TIMER_DURATION)>>

\* the messages the page hands to broadcastData in the current state
BroadcastMsgs ==
    {GameStateUpdate([health |-> pulseHealth, score |-> score, nodes |-> nodes,
                      running |-> gameRunning, gameOver |-> gameOver]),
     GameOverMsg(score)} \cup {PeerDisconnect(p) : p \in RemotePeers}

\* C14: in every state in which the tab is a client, or a host whose
\* connections store holds no open channel (it is empty, or its channels
\* have not opened yet), a call of broadcastData returns normally with
\* nothing sent and no variable changed, whichever sends would throw.
C14_BroadcastWithoutReceivers ==
    (~isHost \/ \A i \in 1..Len(connections) : conns[connections[i].conn].st # "open") =>
        \A data \in BroadcastMsgs : \A F \in SUBSET OpenConns :
            broadcastData(State, data, F) = State

\* C14 witness: a host whose last peer has left has just started a game:
\* the snapshot of startGameHost went to nobody.
C14_Witness ==
    /\ isHost /\ Len(connections) = 0
    /\ conns # <<>>
    /\ gameRunning /\ gameLoopInterval = LOOP_PERIOD
    /\ pulseHealth = F64Int(MAX_HEALTH)
    /\ sent = <<>>

\* every variable of the page and the store but connectionError
allButError ==
    <<gameRunning, pulseHealth, score, nodes, gameOver,
      gameLoopInterval, nodeSpawnInterval, scoreInterval, nextNodeId,
      peerInstance, peerId, isHost, connections, currentConnections,
      hostConnection, connectionStatus, connectedPeers, conns>>

\* C15: connectToHost called with the empty identifier creates no channel,
\* sends nothing and changes no variable (isHost, hostConnection and
\* connectionStatus among them) but connectionError, which it sets.
C15_EmptyHostIdRejected ==
    [][ConnectToHost("")
          => /\ UNCHANGED allButError
             /\ sent' = <<>>
             /\ connectionError' = "Please enter a Host Game ID."]_vars

\* C15 witness: a host with a registered peer has called connectToHost with
\* the empty identifier: it is still host and connected, and the message of
\* the rejection is set.
C15_Witness ==
    /\ connectionError = "Please enter a Host Game ID."
    /\ isHost /\ connectionStatus = "connected"
    /\ hostConnection = 0
    /\ Len(connections) = 1 /\ Len(conns) = 1

\* C16: in every state in which the tab is host, or hostConnection is null,
\* or the channel in hostConnection is not open (not yet, or no longer), a
\* call of sendDataToHost sends nothing and changes no variable.
C16_SendToHostWithoutChannel ==
    (isHost \/ hostConnection = 0 \/ conns[hostConnection].st # "open") =>
        \A id \in 0..MaxNodeId : \A F \in SUBSET OpenConns :
            sendDataToHost(State, PlayerAction(id), F) = State

\* C16 witness: a client mirrors a running game with a target on screen
\* while the channel in hostConnection has not opened yet (it has called
\* connectToHost again), and its last handler sent nothing.
C16_Witness ==
    /\ ~isHost /\ hostConnection # 0
    /\ conns[hostConnection].st = "pending"
    /\ gameRunning /\ ~gameOver /\ nodes # <<>>
    /\ sent = <<>>

(***************************************************************************)
(* Start of a game (startGameHost, +page.svelte lines 118-144).            *)
(***************************************************************************)
\* the snapshot of a game that has just been reset
InitialSnapshot ==
    GameStateUpdate([health |-> F64Int(MAX_HEALTH), score |-> 0, nodes |-> <<>>,
                     running |-> TRUE, gameOver |-> FALSE])

\* the step has left a fresh running game with its three timers armed, and
\* has sent the initial snapshot on every open channel of the connections
\* store whose send did not throw
StartedFresh(F) ==
    /\ pulseHealth' = F64Int(MAX_HEALTH)
    /\ score' = 0
    /\ nodes' = <<>>
    /\ gameRunning' /\ ~gameOver'
    /\ gameLoopInterval' = LOOP_PERIOD
    /\ scoreInterval' = SCORE_PERIOD
    /\ nodeSpawnInterval' = NODE_SPAWN_INTERVAL_START
    /\ \A c \in OpenConns \ F :
           \E i \in 1..Len(sent') : sent'[i] = [to |-> c, data |-> InitialSnapshot]

\* C17: every start operation a host performs while the game is not
\* running, with any number of connected peers, leaves health = MAX_HEALTH,
\* score = 0, no targets, running = true, over = false and the tick, score
\* and spawn timers armed, and sends the snapshot of that state to the open
\* peers within the same event, hence before any timer of the new game.
C17_StartFromNotRunning ==
    [][\A F \in SUBSET OpenConns :
           (isHost /\ ~gameRunning /\ StartGameHost(F)) => StartedFresh(F)]_vars

\* the same statement for a tab whose connection status is neither
\* disconnected nor error, where the reactive block leaves the game alone
C17_StartWithLiveStatus ==
    [][\A F \in SUBSET OpenConns :
           (/\ isHost /\ ~gameRunning
            /\ connectionStatus \notin {"disconnected", "error"}
            /\ StartGameHost(F)) => StartedFresh(F)]_vars

(***************************************************************************)
(* A successful interaction (handleNodeClick, +page.svelte lines 243-259). *)
(***************************************************************************)
\* the sequence ns without its element at position i
Without(ns, i) == SubSeq(ns, 1, i - 1) \o SubSeq(ns, i + 1, Len(ns))

\* the snapshot of the state the step ends in
SnapshotAfter ==
    GameStateUpdate([health |-> pulseHealth', score |-> score', nodes |-> nodes',
                     running |-> gameRunning', gameOver |-> gameOver'])

\* C18: when the host, while running, handles an interaction (a player
\* action of a peer or its own click) for an identifier that is in nodes,
\* exactly that one target leaves nodes and the others keep their order,
\* health becomes min(MAX_HEALTH, health + 5), the score and the running and
\* over flags are unchanged, and one snapshot of the resulting state is sent
\* to the peer within the same step.
C18_ClickOnPresentTarget ==
    [][\A id \in 0..MaxNodeId :
           (/\ isHost /\ gameRunning
            /\ OnScreen(id)
            /\ ConnData(1, PlayerAction(id), {}) \/ OnNodeInteraction(id, {}))
               => /\ \E i \in 1..Len(nodes) : nodes[i].id = id /\ nodes' = Without(nodes, i)
                  /\ ~OnScreen(id)'
                  /\ pulseHealth' = MathMin(F64Int(MAX_HEALTH),
                                            F64Add(pulseHealth, F64Int(HEALTH_GAIN_PER_CLICK)))
                  /\ InRange(pulseHealth')
                  /\ UNCHANGED <<score, gameRunning, gameOver>>
                  /\ sent' = <<[to |-> 1, data |-> SnapshotAfter]>>]_vars

\* C18 witness: target 1 has just been clicked away while target 0 is still
\* on screen, and the snapshot of this state is the one message of the step.
C18_Witness ==
    /\ isHost /\ gameRunning /\ ~gameOver
    /\ OnScreen(0) /\ ~OnScreen(1)
    /\ removedLog # <<>> /\ removedLog[Len(removedLog)] = [id |-> 1, by |-> "click"]
    /\ sent = <<[to |-> 1,
                 data |-> GameStateUpdate([health |-> pulseHealth, score |-> score,
                                           nodes |-> nodes, running |-> TRUE,
                                           gameOver |-> FALSE])]>>

(***************************************************************************)
(* The end of a game in the loop (+page.svelte lines 189-196).             *)
(***************************************************************************)
\* C19: a tick that takes the host's health from above 0 to 0 leaves the
\* game over and not running with the tick, score and spawn timers cleared,
\* keeps the score, and sends exactly one message in that step, a gameOver
\* whose finalScore is that score, and no snapshot; and no tick is ever
\* taken from a state in which the game is over.
C19_TickToZero ==
    [][/\ (/\ F64Less(F64Zero, pulseHealth)
           /\ F64Leq(pulseHealth', F64Zero)
           /\ LoopTick({}))
              => /\ gameOver' /\ ~gameRunning'
                 /\ timers' = <<0, 0, 0>>
                 /\ score' = score
                 /\ sent' = <<[to |-> 1, data |-> GameOverMsg(score)]>>
       /\ gameOver => ~LoopTick({})]_vars

\* C19 witness: the game has just ended in a tick, after misses: health
\* is 0, no timer is armed, and the one message of the step is the gameOver
\* with the host's score.
C19_Witness ==
    /\ isHost /\ gameOver /\ ~gameRunning
    /\ connectionStatus = "connected"
    /\ pulseHealth = F64Zero
    /\ timers = <<0, 0, 0>>
    /\ score > 0
    /\ \E i \in 1..Len(removedLog) : removedLog[i].by = "expiry"
    /\ sent = <<[to |-> 1, data |-> GameOverMsg(score)]>>

(***************************************************************************)
(* The spawn chain outside a running game (+page.svelte lines 206-240).    *)
(***************************************************************************)
\* C20: whenever a step leaves the host's game not running, no spawn
\* timeout is pending after it; and from a state in which the game is not
\* running no spawn timeout fires, and no step other than a start changes
\* the targets or the next identifier.
C20_NoSpawnOutsideRunning ==
    [][/\ ~gameRunning' => nodeSpawnInterval' = 0
       /\ ~gameRunning => ~SpawnFire
       /\ (~gameRunning /\ ~StartGameHost({})) => UNCHANGED <<nodes, nextNodeId>>]_vars

\* C20 witness: a game in which targets were spawned has ended with a target
\* still on screen, and no spawn timeout is pending.
C20_Witness ==
    /\ isHost /\ ~gameRunning /\ gameOver
    /\ nextNodeId > 0 /\ nodes # <<>>
    /\ nodeSpawnInterval = 0

(***************************************************************************)
(* Departure of a peer on the host (part_001 lines 154-199 and 208-218,    *)
(* +page.svelte lines 90-103).                                             *)
(***************************************************************************)
\* the game fields of a state record
MirrorOf(s) == <<s.pulseHealth, s.score, s.nodes, s.gameRunning, s.gameOver>>

\* the step has removed peer p from the connection map and from the list of
\* connected peers, and has sent the notice of p's departure on every open
\* channel that is still registered and whose send did not throw
Departed(p, F) ==
    /\ ~HasKey(connections', p)
    /\ ~HasKey(currentConnections', p)
    /\ \A i \in 1..Len(connectedPeers') : connectedPeers'[i] # p
    /\ \A c \in OpenConns' \ F :
           \E i \in 1..Len(sent') : sent'[i] = [to |-> c, data |-> PeerDisconnect(p)]

\* C21: on the host, the close of a peer's channel, an error on it, and a
\* throwing send to it (here in the broadcast of startGameHost) have the
\* same outcome: the peer is no longer in the connection map nor in the
\* list of connected peers, and the notice of its departure has been sent to
\* every remaining open peer whose send does not throw.  The close and the
\* error leave health, score, targets, running and over unchanged, and the
\* throwing send leaves them as the same start leaves them when no send
\* throws.
C21_DepartureOutcome ==
    [][\A c \in 1..Len(conns) : \A F \in SUBSET OpenConns :
           /\ (isHost /\ (ConnClose(c, F) \/ ConnError(c, F)))
                 => Departed(conns[c].peer, F) /\ UNCHANGED mirror
           /\ (isHost /\ c \in F /\ StartGameHost(F))
                 => /\ Departed(conns[c].peer, F)
                    /\ mirror' = MirrorOf(ReactiveBlock(startGameHost(State, {})))]_vars

\* C21 witness: the channel of one of three peers has closed: its peer has
\* left the map and the list, and the step sent the notice to the other two.
C21_Witness ==
    /\ isHost /\ Len(connections) = 2 /\ Len(connectedPeers) = 2
    /\ \E c \in 1..Len(conns) :
           /\ conns[c].st = "closed"
           /\ ~HasKey(connections, conns[c].peer)
           /\ sent = [i \in 1..2 |-> [to |-> connections[i].conn,
                                      data |-> PeerDisconnect(conns[c].peer)]]

(***************************************************************************)
(* Registration of a peer on the host (part_001 lines 66-79 and 166-171).  *)
(***************************************************************************)
\* C22: on the host, every peer in the connection map and in the list of
\* connected peers has a channel that has opened and has not closed: no
\* record exists before its channel's open event.
C22_RecordOnlyWhenOpen ==
    isHost =>
        /\ \A i \in 1..Len(connections) : conns[connections[i].conn].st = "open"
        /\ \A i \in 1..Len(connectedPeers) :
               \E c \in 1..Len(conns) :
                   conns[c].peer = connectedPeers[i] /\ conns[c].st = "open"

C24_IdentifiersIncrease ==
    [][(SpawnFire /\ Len(nodes') = Len(nodes) + 1)
          => /\ \A i \in 1..Len(nodes) : nodes[i].id < nodes'[Len(nodes')].id
             /\ \A r \in removedEver : r.id < nodes'[Len(nodes')].id]_vars

(***************************************************************************)
(* The cadence of snapshots in the loop (+page.svelte lines 197-201).      *)
(***************************************************************************)
\* the step before this state sent a snapshot of this very state: where only
\* the loop and the score timer fire, it was a tick, and the score has not
\* changed since
SnapshotJustSent ==
    sent = <<[to |-> 1,
              data |-> GameStateUpdate([health |-> pulseHealth, score |-> score,
                                        nodes |-> nodes, running |-> gameRunning,
                                        gameOver |-> gameOver])]>>

\* C25: a tick that does not end the game sends at most one message, a
\* snapshot, and sends it only if a target expired in the tick or the score
\* is a multiple of 5; and a tick without an expiry that follows a tick that
\* sent a snapshot in the same second of score sends nothing: the cadence
\* gives at most one snapshot per whole second of score.
C25_SnapshotCadence ==
    [][(LoopTick({}) /\ gameRunning')
          => /\ sent' = <<>> \/ sent' = <<[to |-> 1, data |-> SnapshotAfter]>>
             /\ sent' # <<>> => (Expiring # {} \/ score % 5 = 0)
             /\ (Expiring = {} /\ SnapshotJustSent) => sent' = <<>>]_vars

\* the first two conjuncts of C25 alone: what the tick sends, and when
TickSendsOnExpiryOrCadence ==
    [][(LoopTick({}) /\ gameRunning')
          => /\ sent' = <<>> \/ sent' = <<[to |-> 1, data |-> SnapshotAfter]>>
             /\ sent' # <<>> <=> (Expiring # {} \/ score % 5 = 0)]_vars

(***************************************************************************)
(* A replaced host channel (part_001 lines 117-143 and 175-199).           *)
(***************************************************************************)
\* C26: on a client whose hostConnection holds a channel, the close of, or
\* an error on, another channel that an earlier connectToHost had opened
\* changes none of hostConnection, the connection status, running and over.
C26_ReplacedChannelLoss ==
    [][\A c \in 1..Len(conns) :
           (/\ ~isHost
            /\ hostConnection # 0 /\ c # hostConnection
            /\ conns[c].dir = "out"
            /\ ConnClose(c, {}) \/ ConnError(c, {}))
               => UNCHANGED <<hostConnection, connectionStatus, gameRunning, gameOver>>]_vars

(***************************************************************************)
(* The end of the host's game as seen by the peers.                        *)
(***************************************************************************)
\* C27: every step that takes the host's game from running to over sends a
\* gameOver message on every open channel of a registered peer.
C27_OverIsBroadcast ==
    [][(isHost /\ gameRunning /\ gameOver')
          => \A c \in OpenConns :
                 \E i \in 1..Len(sent') : sent'[i].to = c /\ sent'[i].data.type = "gameOver"]_vars

(***************************************************************************)
(* Notices of departure (part_001 lines 154-188, +page.svelte line 101).   *)
(***************************************************************************)
\* C28: on a host all of whose channels were registered, the close of a
\* channel whose peer has already left the connection map (after an error
\* on that channel, or a throwing send to it, for which the notice of
\* departure was broadcast) sends no further notice for that peer.
C28_OneNoticePerDeparture ==
    [][\A c \in 1..Len(conns) : \A F \in SUBSET OpenConns :
           (/\ isHost
            /\ ~HasKey(connections, conns[c].peer)
            /\ ConnClose(c, F))
               => \A i \in 1..Len(sent') : sent'[i].data # PeerDisconnect(conns[c].peer)]_vars

(***************************************************************************)
(* SpecLive: the games of SpecGame while the connection status stays       *)
(* connected, so that nothing but the loop stops the timers.  A game is    *)
(* started only when none is running.  An armed timer that is due fires:   *)
(* the browser runs a due interval or timeout callback as soon as the      *)
(* handlers before it have returned, hence weak fairness on the firing of  *)
(* each of the three timers.  Clicks and player actions are under no       *)
(* fairness.                                                               *)
(*                                                                         *)
(* The firing of a timer is stated on its handle: the handle is due and    *)
(* the step re-arms or clears it.  Of the steps of NextLive exactly those  *)
(* of LoopTick, ScoreTick and SpawnFire are such steps, and each is        *)
(* possible whenever its handle is due (TimerStepsAreFirings), so the      *)
(* three conditions are weak fairness on LoopTick({}), ScoreTick and       *)
(* SpawnFire.  The score and spawn timers need it as well as the tick: a   *)
(* tick does not fire before a timer that is due earlier has fired.        *)
(***************************************************************************)
\* setInterval of line 169 fires: re-armed, or cleared by stopGameTimers
LoopTickFires ==
    /\ FiresNext(gameLoopInterval)
    /\ gameLoopInterval' \in {0, gameLoopInterval + LOOP_PERIOD}

\* setInterval of line 161 fires
ScoreTickFires ==
    /\ FiresNext(scoreInterval)
    /\ scoreInterval' \in {0, scoreInterval + SCORE_PERIOD}

\* setTimeout of line 210 fires: scheduleNextSpawn arms the next one, unless
\* the game has stopped
SpawnFires ==
    /\ FiresNext(nodeSpawnInterval)
    /\ nodeSpawnInterval' \in {0, nodeSpawnInterval + SpawnDelay(score)}

NextLive ==
    \/ ~gameRunning /\ StartGameHost({})
    \/ LoopTick({})
    \/ ScoreTick
    \/ SpawnFire
    \/ \E id \in 0..MaxNodeId : Clickable(id) /\ OnNodeInteraction(id, {})
    \/ \E id \in 0..MaxNodeId : Clickable(id) /\ ConnData(1, PlayerAction(id), {})

SpecLive ==
    /\ InitGame
    /\ [][NextLive]_vars
    /\ WF_gameLoopInterval(LoopTickFires)
    /\ WF_scoreInterval(ScoreTickFires)
    /\ WF_nodeSpawnInterval(SpawnFires)

\* the steps that move a due handle are the steps of the timer actions
TimerStepsAreFirings ==
    [][/\ (LoopTickFires /\ gameLoopInterval' # gameLoopInterval) <=> LoopTick({})
       /\ (ScoreTickFires /\ scoreInterval' # scoreInterval) <=> ScoreTick
       /\ (SpawnFires /\ nodeSpawnInterval' # nodeSpawnInterval) <=> SpawnFire]_vars

\* the last step ended the game in the loop and told the peer
OverBroadcast ==
    /\ gameOver /\ ~gameRunning
    /\ sent = <<[to |-> 1, data |-> GameOverMsg(score)]>>

\* C29: every running game of the host whose timers keep firing ends: from
\* every state in which the game runs, a state follows in which the game is
\* over and the step into it has sent gameOver with the host's score.
C29_RunningLeadsToOver ==
    gameRunning ~> OverBroadcast

\* C29 witness: a game in which a target was clicked away and another one
\* expired has ended in a tick that sent gameOver.
C29_Witness ==
    /\ OverBroadcast
    /\ pulseHealth = F64Zero
    /\ \E i, j \in 1..Len(removedLog) :
           removedLog[i].by = "click" /\ removedLog[j].by = "expiry"
=============================================================================
